---------------------------- MODULE Spec2Model ----------------------------
(***************************************************************************)
(* Model of report_last_n_full_backups.py: the scan of a directory         *)
(* listing into duplicity backup generations (get_duplicity_files) and     *)
(* the walk that selects the files of the last n full backups              *)
(* (return_last_n_full_backups).                                           *)
(*                                                                         *)
(* A filename is a TLA+ string in the state; Chars gives its characters,   *)
(* on which the regular expressions and strptime are computed.             *)
(***************************************************************************)
EXTENDS Integers, Sequences, FiniteSets, TLC

(* Longest directory listing explored. *)
MaxFiles == 4

(* Largest nr_full explored (--nr). *)
MaxNr == 2

----------------------------------------------------------------------------
(* The directory entries a listing is drawn from. *)

F2_manifest == "duplicity-full.20130101T010000Z.manifest.gpg"

F2_vol1 == "duplicity-full.20130101T010000Z.vol1.difftar.gpg"

I1_manifest == "duplicity-inc.20130101T000000Z.to.20130101T000001Z.manifest.gpg"

I3_signatures == "duplicity-new-signatures.20130101T010000Z.to.20130102T010001Z.sigtar.gpg"

F4_signatures == "duplicity-full-signatures.20130108T000000Z.sigtar.gpg"

I5_vol1 == "duplicity-inc.20130108T000000Z.to.20130109T000000Z.vol1.difftar.gpg"

X2_manifest == "duplicity-inc.20130101T000001Z.to.20130101T010000Z.manifest.gpg"

Concatenated == "duplicity-full.20130101T010000Z.vol1.difftar.gpgduplicity-full.20130101T010000Z.vol2.difftar.gpgduplicity-full-signatures.20130101T010000Z.sigtar.gpg"

Readme == "README.txt"

BadMonth == "duplicity-full.20131301T010000Z.manifest.gpg"

BadLetter == "duplicity-full-signatures.20130101T010000A.sigtar.gpg"

BadStart == "duplicity-inc.20131301T000000Z.to.20130109T000000Z.manifest.gpg"


DirEntries ==
  {F2_manifest, F2_vol1, I1_manifest, I3_signatures, F4_signatures, I5_vol1,
   X2_manifest, Concatenated, Readme, BadMonth, BadLetter, BadStart}


(* The characters of each directory entry's name. *)
Chars ==
  F2_manifest :>
    <<"d","u","p","l","i","c","i","t","y","-","f","u","l","l",".","2","0","1","3","0","1","0","1","T","0","1","0","0","0","0","Z",".","m","a","n","i","f","e","s","t",".","g","p","g">> @@
  F2_vol1 :>
    <<"d","u","p","l","i","c","i","t","y","-","f","u","l","l",".","2","0","1","3","0","1","0","1","T","0","1","0","0","0","0","Z",".","v","o","l","1",".","d","i","f","f","t","a","r",".","g","p","g">> @@
  I1_manifest :>
    <<"d","u","p","l","i","c","i","t","y","-","i","n","c",".","2","0","1","3","0","1","0","1","T","0","0","0","0","0","0","Z",".","t","o",".","2","0","1","3","0","1","0","1","T","0","0","0","0","0","1","Z",".","m","a","n","i","f","e","s","t",".","g","p","g">> @@
  I3_signatures :>
    <<"d","u","p","l","i","c","i","t","y","-","n","e","w","-","s","i","g","n","a","t","u","r","e","s",".","2","0","1","3","0","1","0","1","T","0","1","0","0","0","0","Z",".","t","o",".","2","0","1","3","0","1","0","2","T","0","1","0","0","0","1","Z",".","s","i","g","t","a","r",".","g","p","g">> @@
  F4_signatures :>
    <<"d","u","p","l","i","c","i","t","y","-","f","u","l","l","-","s","i","g","n","a","t","u","r","e","s",".","2","0","1","3","0","1","0","8","T","0","0","0","0","0","0","Z",".","s","i","g","t","a","r",".","g","p","g">> @@
  I5_vol1 :>
    <<"d","u","p","l","i","c","i","t","y","-","i","n","c",".","2","0","1","3","0","1","0","8","T","0","0","0","0","0","0","Z",".","t","o",".","2","0","1","3","0","1","0","9","T","0","0","0","0","0","0","Z",".","v","o","l","1",".","d","i","f","f","t","a","r",".","g","p","g">> @@
  X2_manifest :>
    <<"d","u","p","l","i","c","i","t","y","-","i","n","c",".","2","0","1","3","0","1","0","1","T","0","0","0","0","0","1","Z",".","t","o",".","2","0","1","3","0","1","0","1","T","0","1","0","0","0","0","Z",".","m","a","n","i","f","e","s","t",".","g","p","g">> @@
  Concatenated :>
    <<"d","u","p","l","i","c","i","t","y","-","f","u","l","l",".","2","0","1","3","0","1","0","1","T","0","1","0","0","0","0","Z",".","v","o","l","1",".","d","i","f","f","t","a","r",".","g","p","g","d","u","p","l","i","c","i","t","y","-","f","u","l","l",".","2","0","1","3","0","1","0","1","T","0","1","0","0","0","0","Z",".","v","o","l","2",".","d","i","f","f","t","a","r",".","g","p","g","d","u","p","l","i","c","i","t","y","-","f","u","l","l","-","s","i","g","n","a","t","u","r","e","s",".","2","0","1","3","0","1","0","1","T","0","1","0","0","0","0","Z",".","s","i","g","t","a","r",".","g","p","g">> @@
  Readme :>
    <<"R","E","A","D","M","E",".","t","x","t">> @@
  BadMonth :>
    <<"d","u","p","l","i","c","i","t","y","-","f","u","l","l",".","2","0","1","3","1","3","0","1","T","0","1","0","0","0","0","Z",".","m","a","n","i","f","e","s","t",".","g","p","g">> @@
  BadLetter :>
    <<"d","u","p","l","i","c","i","t","y","-","f","u","l","l","-","s","i","g","n","a","t","u","r","e","s",".","2","0","1","3","0","1","0","1","T","0","1","0","0","0","0","A",".","s","i","g","t","a","r",".","g","p","g">> @@
  BadStart :>
    <<"d","u","p","l","i","c","i","t","y","-","i","n","c",".","2","0","1","3","1","3","0","1","T","0","0","0","0","0","0","Z",".","t","o",".","2","0","1","3","0","1","0","9","T","0","0","0","0","0","0","Z",".","m","a","n","i","f","e","s","t",".","g","p","g">>


----------------------------------------------------------------------------
(* Characters the regular expressions distinguish. *)
Digits == {"0","1","2","3","4","5","6","7","8","9"}

UpperCase ==
  {"A","B","C","D","E","F","G","H","I","J","K","L","M",
   "N","O","P","Q","R","S","T","U","V","W","X","Y","Z"}

DigitVal(c) == CHOOSE v \in 0..9 : <<"0","1","2","3","4","5","6","7","8","9">>[v + 1] = c

(* Elements of a regular expression: a literal text, a named timestamp     *)
(* group (ts_regex), or \d+.                                               *)
Lit(s) == [kind |-> "lit", s |-> s, group |-> ""]

(* ts_regex(number): (?P<timestampN>\d{8}T\d{2}\d{4}[A-Z]) *)
ts_regex(group) == [kind |-> "ts", s |-> <<>>, group |-> group]

DigitsPlus == [kind |-> "digits", s |-> <<>>, group |-> ""]

(* \d{8}T\d{2}\d{4}[A-Z] at position pos of name *)
TsMatchesAt(name, pos) ==
  /\ pos + 15 <= Len(name)
  /\ \A k \in 0..7 : name[pos + k] \in Digits
  /\ name[pos + 8] = "T"
  /\ \A k \in 9..14 : name[pos + k] \in Digits
  /\ name[pos + 15] \in UpperCase

(* Number of consecutive digits of name from position pos on. *)
RECURSIVE DigitRun(_, _)
DigitRun(name, pos) ==
  IF pos <= Len(name) /\ name[pos] \in Digits
  THEN 1 + DigitRun(name, pos + 1)
  ELSE 0

(* Matching of pattern elements k.. of re against name from position pos. *)
(* The match succeeds when the pattern is used up, wherever that is in the *)
(* name.  \d+ is always followed by a literal ".", so taking the whole run *)
(* of digits is the only way to match.                                     *)
RECURSIVE MatchFrom(_, _, _, _, _)
MatchFrom(re, k, name, pos, groups) ==
  IF k > Len(re)
  THEN [ok |-> TRUE, groups |-> groups, end |-> pos - 1]
  ELSE LET e == re[k]
           fail == [ok |-> FALSE, groups |-> groups, end |-> pos - 1]
       IN CASE e.kind = "lit" ->
                 IF /\ pos + Len(e.s) - 1 <= Len(name)
                    /\ SubSeq(name, pos, pos + Len(e.s) - 1) = e.s
                 THEN MatchFrom(re, k + 1, name, pos + Len(e.s), groups)
                 ELSE fail
            [] e.kind = "ts" ->
                 IF TsMatchesAt(name, pos)
                 THEN MatchFrom(re, k + 1, name, pos + 16,
                                groups @@ (e.group :> SubSeq(name, pos, pos + 15)))
                 ELSE fail
            [] e.kind = "digits" ->
                 IF DigitRun(name, pos) >= 1
                 THEN MatchFrom(re, k + 1, name, pos + DigitRun(name, pos), groups)
                 ELSE fail

(* pattern.match(name): anchored at the start of the name only. *)
re_match(re, name) == MatchFrom(re, 1, name, 1, <<>>)

(* The compiled patterns of get_duplicity_files. *)
full_prefix ==
  <<Lit(<<"d","u","p","l","i","c","i","t","y","-","f","u","l","l",".">>),
    ts_regex("timestamp"), Lit(<<".">>)>>

full_manifest ==
  full_prefix \o <<Lit(<<"m","a","n","i","f","e","s","t",".","g","p","g">>)>>

full_difftar ==
  full_prefix \o <<Lit(<<"v","o","l">>), DigitsPlus,
                   Lit(<<".","d","i","f","f","t","a","r",".","g","p","g">>)>>

full_signatures ==
  <<Lit(<<"d","u","p","l","i","c","i","t","y","-","f","u","l","l","-",
          "s","i","g","n","a","t","u","r","e","s",".">>),
    ts_regex("timestamp"),
    Lit(<<".","s","i","g","t","a","r",".","g","p","g">>)>>

inc_prefix ==
  <<Lit(<<"d","u","p","l","i","c","i","t","y","-","i","n","c",".">>),
    ts_regex("timestamp1"), Lit(<<".","t","o",".">>),
    ts_regex("timestamp2"), Lit(<<".">>)>>

inc_manifest ==
  inc_prefix \o <<Lit(<<"m","a","n","i","f","e","s","t",".","g","p","g">>)>>

inc_difftar ==
  inc_prefix \o <<Lit(<<"v","o","l">>), DigitsPlus,
                  Lit(<<".","d","i","f","f","t","a","r",".","g","p","g">>)>>

inc_signatures ==
  <<Lit(<<"d","u","p","l","i","c","i","t","y","-","n","e","w","-",
          "s","i","g","n","a","t","u","r","e","s",".">>),
    ts_regex("timestamp1"), Lit(<<".","t","o",".">>),
    ts_regex("timestamp2"),
    Lit(<<".","s","i","g","t","a","r",".","g","p","g">>)>>

(* The patterns in the order the loop body tries them, each with the group *)
(* it reads the timestamp from and the is_full it passes to add_entry.     *)
Patterns ==
  <<[re |-> full_manifest,   group |-> "timestamp",  is_full |-> TRUE],
    [re |-> full_difftar,    group |-> "timestamp",  is_full |-> TRUE],
    [re |-> full_signatures, group |-> "timestamp",  is_full |-> TRUE],
    [re |-> inc_manifest,    group |-> "timestamp2", is_full |-> FALSE],
    [re |-> inc_difftar,     group |-> "timestamp2", is_full |-> FALSE],
    [re |-> inc_signatures,  group |-> "timestamp2", is_full |-> FALSE]>>

(* Number of days of month m of year y. *)
DaysInMonth(y, m) ==
  IF m = 2
  THEN IF (y % 4 = 0 /\ y % 100 # 0) \/ y % 400 = 0 THEN 29 ELSE 28
  ELSE IF m \in {4, 6, 9, 11} THEN 30 ELSE 31

(* Days from 1970-01-01 to the date y-m-d of the proleptic Gregorian       *)
(* calendar: (time - datetime(1970, 1, 1)).days                            *)
DaysSinceEpoch(y, m, d) ==
  LET yy  == IF m <= 2 THEN y - 1 ELSE y
      era == yy \div 400
      yoe == yy - era * 400
      mp  == IF m > 2 THEN m - 3 ELSE m + 9
      doy == (153 * mp + 2) \div 5 + d - 1
      doe == yoe * 365 + yoe \div 4 - yoe \div 100 + doy
  IN era * 146097 + doe - 719468

(* The number two digit characters spell. *)
Num2(a, b) == 10 * DigitVal(a) + DigitVal(b)

(* get_unix_timestamp(timestamp): strptime with "%Y%m%dT%H%M%SZ" and the   *)
(* seconds since 1970-01-01.  ok = FALSE stands for the ValueError that    *)
(* strptime or the datetime constructor raises.  The argument is a         *)
(* 16-character match of ts_regex, so each field has its full width.       *)
get_unix_timestamp(timestamp) ==
  LET year   == 100 * Num2(timestamp[1], timestamp[2]) + Num2(timestamp[3], timestamp[4])
      month  == Num2(timestamp[5], timestamp[6])
      day    == Num2(timestamp[7], timestamp[8])
      hour   == Num2(timestamp[10], timestamp[11])
      minute == Num2(timestamp[12], timestamp[13])
      second == Num2(timestamp[14], timestamp[15])
      valid  == /\ timestamp[9] = "T"
                /\ timestamp[16] = "Z"
                /\ year >= 1
                /\ month \in 1..12
                /\ day \in 1..DaysInMonth(year, month)
                /\ hour \in 0..23
                /\ minute \in 0..59
                /\ second \in 0..59
  IN IF valid
     THEN [ok |-> TRUE,
           value |-> DaysSinceEpoch(year, month, day) * 86400
                     + hour * 3600 + minute * 60 + second]
     ELSE [ok |-> FALSE, value |-> 0]

(* First pattern of the loop body that matches name, 0 when none does. *)
RECURSIVE FirstPattern(_, _)
FirstPattern(name, k) ==
  IF k > Len(Patterns) THEN 0
  ELSE IF re_match(Patterns[k].re, name).ok THEN k
  ELSE FirstPattern(name, k + 1)

(* What one pass of the loop body of get_duplicity_files finds for a name: *)
(* the exception it raises ("" when none), and the timestamp and is_full   *)
(* it hands to add_entry.                                                  *)
LoopBody(name) ==
  LET k == FirstPattern(name, 1)
  IN IF k = 0
     THEN [exc |-> "Exception", timestamp |-> 0, is_full |-> FALSE]
     ELSE LET t == get_unix_timestamp(re_match(Patterns[k].re, name).groups[Patterns[k].group])
          IN IF t.ok
             THEN [exc |-> "", timestamp |-> t.value, is_full |-> Patterns[k].is_full]
             ELSE [exc |-> "ValueError", timestamp |-> 0, is_full |-> Patterns[k].is_full]

(* LoopBody of every directory entry. *)
Classified == [f \in DirEntries |-> LoopBody(Chars[f])]

----------------------------------------------------------------------------
VARIABLES
  all_files,   \* os.listdir(directory), in the order the system gives it
  nr_full,     \* the argument nr_full (--nr)
  pc,          \* "scan", "walk", "done" (a list was returned) or "raised"
  i,           \* position of the scan loop in all_files
  dup_files,   \* timestamp -> [is_full, files]
  keys,        \* the sorted keys the walk has not visited yet
  counter,     \* full generations counted by the walk
  result,      \* the list return_last_n_full_backups builds
  exc,         \* the exception that ended the call, "" when none
  visited      \* history: the keys the walk has visited, in order

vars == <<all_files, nr_full, pc, i, dup_files, keys, counter, result, exc, visited>>

(* The elements of a sequence. *)
Range(s) == {s[k] : k \in 1..Len(s)}

(* Listings of at most MaxFiles entries; a directory holds a name once. *)
Listings ==
  UNION {{s \in [1..n -> DirEntries] : \A a, b \in 1..n : a # b => s[a] # s[b]}
         : n \in 0..MaxFiles}

(* add_entry without its assert: a file is appended to the generation of   *)
(* its timestamp whatever is_full says.                                    *)
add_entry_no_assert(d, timestamp, is_full, filename) ==
  IF timestamp \in DOMAIN d
  THEN [ok |-> TRUE,
        d |-> [d EXCEPT ![timestamp].files = Append(@, filename)]]
  ELSE [ok |-> TRUE,
        d |-> d @@ (timestamp :> [is_full |-> is_full, files |-> <<filename>>])]

(* add_entry that appends the filename also to the entry it has just       *)
(* created with it.                                                        *)
add_entry_append_after_create(d, timestamp, is_full, filename) ==
  IF timestamp \in DOMAIN d
  THEN IF d[timestamp].is_full = is_full
       THEN [ok |-> TRUE,
             d |-> [d EXCEPT ![timestamp].files = Append(@, filename)]]
       ELSE [ok |-> FALSE, d |-> d]
  ELSE [ok |-> TRUE,
        d |-> d @@ (timestamp :> [is_full |-> is_full,
                                  files |-> <<filename, filename>>])]

(* add_entry(dup_files, timestamp, is_full, filename): the new mapping, or *)
(* ok = FALSE for the AssertionError.  Every entry is created with its     *)
(* "files", so the branch for an entry without "files" is never taken.     *)
add_entry(d, timestamp, is_full, filename) ==
  IF timestamp \in DOMAIN d
  THEN IF d[timestamp].is_full = is_full
       THEN [ok |-> TRUE,
             d |-> [d EXCEPT ![timestamp].files = Append(@, filename)]]
       ELSE [ok |-> FALSE, d |-> d]
  ELSE [ok |-> TRUE,
        d |-> d @@ (timestamp :> [is_full |-> is_full, files |-> <<filename>>])]

(* sorted(keys, reverse=True) *)
RECURSIVE SortedReverse(_)
SortedReverse(S) ==
  IF S = {} THEN <<>>
  ELSE LET m == CHOOSE x \in S : \A y \in S : y <= x
       IN <<m>> \o SortedReverse(S \ {m})

(* The loop body with "counter < nr_full". *)
walk_body_strict(d, key, n, c, res) ==
  LET c2 == IF d[key].is_full THEN c + 1 ELSE c
  IN IF c2 < n
     THEN [counter |-> c2, result |-> res \o d[key].files, brk |-> FALSE]
     ELSE [counter |-> c2, result |-> res, brk |-> TRUE]

(* The loop body that decides on the counter before it counts the key. *)
walk_body_decide_first(d, key, n, c, res) ==
  LET c2 == IF d[key].is_full THEN c + 1 ELSE c
  IN IF c <= n
     THEN [counter |-> c2, result |-> res \o d[key].files, brk |-> FALSE]
     ELSE [counter |-> c2, result |-> res, brk |-> TRUE]

(* The loop body with the comparison turned round: "counter >= nr_full". *)
walk_body_reversed(d, key, n, c, res) ==
  LET c2 == IF d[key].is_full THEN c + 1 ELSE c
  IN IF c2 >= n
     THEN [counter |-> c2, result |-> res \o d[key].files, brk |-> FALSE]
     ELSE [counter |-> c2, result |-> res, brk |-> TRUE]

(* The body of the walk's loop for one key: the new counter and result,    *)
(* and whether the loop breaks.                                            *)
walk_body(d, key, n, c, res) ==
  LET c2 == IF d[key].is_full THEN c + 1 ELSE c
  IN IF c2 <= n
     THEN [counter |-> c2, result |-> res \o d[key].files, brk |-> FALSE]
     ELSE [counter |-> c2, result |-> res, brk |-> TRUE]

(* The walk over the keys ks from counter c and result res. *)
RECURSIVE WalkAll(_, _, _, _, _)
WalkAll(d, ks, n, c, res) ==
  IF ks = <<>> THEN res
  ELSE LET b == walk_body(d, Head(ks), n, c, res)
       IN IF b.brk THEN b.result
          ELSE WalkAll(d, Tail(ks), n, b.counter, b.result)

(* What return_last_n_full_backups returns for the mapping d and n. *)
LastN(d, n) == WalkAll(d, SortedReverse(DOMAIN d), n, 0, <<>>)

Init ==
  /\ all_files \in Listings
  /\ nr_full \in 0..MaxNr
  /\ pc = "scan"
  /\ i = 1
  /\ dup_files = <<>>
  /\ keys = <<>>
  /\ counter = 0
  /\ result = <<>>
  /\ exc = ""
  /\ visited = <<>>

(* raise: the call ends without a return value. *)
Raise(e) ==
  /\ pc' = "raised"
  /\ exc' = e
  /\ UNCHANGED <<all_files, nr_full, i, dup_files, keys, counter, result, visited>>

(* The loop body that skips a name no pattern matches and goes on. *)
ScanName_skip_unknown ==
  /\ pc = "scan"
  /\ i <= Len(all_files)
  /\ LET name == all_files[i]
         c == Classified[name]
     IN IF c.exc = "Exception"
        THEN /\ i' = i + 1
             /\ UNCHANGED <<all_files, nr_full, pc, dup_files, keys, counter,
                            result, exc, visited>>
        ELSE IF c.exc # ""
        THEN Raise(c.exc)
        ELSE LET r == add_entry(dup_files, c.timestamp, c.is_full, name)
             IN IF ~r.ok
                THEN Raise("AssertionError")
                ELSE /\ dup_files' = r.d
                     /\ i' = i + 1
                     /\ UNCHANGED <<all_files, nr_full, pc, keys, counter,
                                    result, exc, visited>>

(* One pass of "for name in all_files". *)
ScanName ==
  /\ pc = "scan"
  /\ i <= Len(all_files)
  /\ LET name == all_files[i]
         c == Classified[name]
     IN IF c.exc # ""
        THEN Raise(c.exc)
        ELSE LET r == add_entry(dup_files, c.timestamp, c.is_full, name)
             IN IF ~r.ok
                THEN Raise("AssertionError")
                ELSE /\ dup_files' = r.d
                     /\ i' = i + 1
                     /\ UNCHANGED <<all_files, nr_full, pc, keys, counter,
                                    result, exc, visited>>

(* "return dup_files", and the start of the walk: result, counter and the  *)
(* sorted keys.                                                            *)
ScanReturn ==
  /\ pc = "scan"
  /\ i > Len(all_files)
  /\ pc' = "walk"
  /\ keys' = SortedReverse(DOMAIN dup_files)
  /\ result' = <<>>
  /\ counter' = 0
  /\ UNCHANGED <<all_files, nr_full, i, dup_files, exc, visited>>

(* One pass of "for key in sorted(...)"; a break leaves the loop and the   *)
(* function returns result.                                                *)
WalkStep ==
  /\ pc = "walk"
  /\ keys # <<>>
  /\ LET b == walk_body(dup_files, Head(keys), nr_full, counter, result)
     IN /\ counter' = b.counter
        /\ result' = b.result
        /\ visited' = Append(visited, Head(keys))
        /\ IF b.brk
           THEN pc' = "done" /\ keys' = keys
           ELSE pc' = pc /\ keys' = Tail(keys)
  /\ UNCHANGED <<all_files, nr_full, i, dup_files, exc>>

(* The loop is over: "return result". *)
WalkReturn ==
  /\ pc = "walk"
  /\ keys = <<>>
  /\ pc' = "done"
  /\ UNCHANGED <<all_files, nr_full, i, dup_files, keys, counter, result, exc, visited>>

Next == ScanName \/ ScanReturn \/ WalkStep \/ WalkReturn

Spec == Init /\ [][Next]_vars


----------------------------------------------------------------------------
(* Vocabulary of the properties. *)

(* get_duplicity_files has returned its mapping. *)
MappingReturned == pc \in {"walk", "done"}

(* The timestamps of the full generations of the mapping d. *)
FullKeys(d) == {k \in DOMAIN d : d[k].is_full}

(* The names held by the generations ks of the mapping d. *)
FilesOf(d, ks) == UNION {Range(d[k].files) : k \in ks}

(* The n-th newest full generation of d (1 <= n <= number of them). *)
NthNewestFull(d, n) == SortedReverse(FullKeys(d))[n]

(* The directory entries no pattern of the loop body matches. *)
UnmatchedEntries ==
  {f \in DirEntries :
     \A k \in 1..Len(Patterns) : ~re_match(Patterns[k].re, Chars[f]).ok}

MatchesNoPattern(f) == f \in UnmatchedEntries

(* The directory entries of which some pattern matches a prefix and none   *)
(* matches the name to its end.                                            *)
PrefixMatchedEntries ==
  {f \in DirEntries \ UnmatchedEntries :
     \A k \in 1..Len(Patterns) :
       re_match(Patterns[k].re, Chars[f]).ok
         => re_match(Patterns[k].re, Chars[f]).end < Len(Chars[f])}

OnlyPrefixMatches(f) == f \in PrefixMatchedEntries

(* The directory entries that have the shape of a pattern up to their end  *)
(* and whose timestamp token, the one the loop body reads, does not parse. *)
BadTimestampEntries ==
  {f \in DirEntries :
     \E k \in 1..Len(Patterns) :
       LET m == re_match(Patterns[k].re, Chars[f])
       IN /\ m.ok
          /\ m.end = Len(Chars[f])
          /\ ~get_unix_timestamp(m.groups[Patterns[k].group]).ok}

ShapedWithBadTimestamp(f) == f \in BadTimestampEntries

(* Number of full generations among the first k keys of v. *)
FullCount(v, k) == Cardinality({j \in 1..k : dup_files[v[j]].is_full})

(* The files of the first k keys of v whose FullCount is at most nr_full. *)
RECURSIVE ConcatIncluded(_, _)
ConcatIncluded(v, k) ==
  IF k = 0 THEN <<>>
  ELSE ConcatIncluded(v, k - 1)
       \o (IF FullCount(v, k) <= nr_full THEN dup_files[v[k]].files ELSE <<>>)

(* The start timestamp (group timestamp1) of the incremental file f. *)
StartTimestamp(f) ==
  LET k == FirstPattern(Chars[f], 1)
  IN get_unix_timestamp(re_match(Patterns[k].re, Chars[f]).groups["timestamp1"])

(* Every incremental file of d starts at the timestamp of an earlier       *)
(* generation of d, every full generation of d has an incremental          *)
(* generation that starts at it, and no incremental generation is older    *)
(* than all full ones.                                                     *)
EachFullHasItsIncrementals(d) ==
  LET incs == DOMAIN d \ FullKeys(d)
  IN /\ \A J \in incs : \A f \in Range(d[J].files) :
          /\ StartTimestamp(f).ok
          /\ StartTimestamp(f).value \in DOMAIN d
          /\ StartTimestamp(f).value < J
     /\ \A K \in FullKeys(d) :
          \E J \in incs : \E f \in Range(d[J].files) :
            StartTimestamp(f).value = K
     /\ \A J \in incs : \E K \in FullKeys(d) : K < J

----------------------------------------------------------------------------
(* C1: with n >= 1 and more than n full generations, each followed by its  *)
(* own incrementals, the returned files are exactly those of the           *)
(* generations that are not older than the n-th newest full generation.    *)
C1_LastNWithTheirIncrementals ==
  (/\ pc = "done"
   /\ nr_full >= 1
   /\ Cardinality(FullKeys(dup_files)) > nr_full
   /\ EachFullHasItsIncrementals(dup_files))
  => Range(result) =
       FilesOf(dup_files,
               {k \in DOMAIN dup_files : k >= NthNewestFull(dup_files, nr_full)})

(* C2: with one full generation and a leftover incremental generation that *)
(* ends before it, n = 1 returns the full generation and the incrementals  *)
(* after it, and no file of the leftover generation.                       *)
C2_LeftoverIncrementalExcluded ==
  (/\ pc = "done"
   /\ nr_full = 1
   /\ Cardinality(FullKeys(dup_files)) = 1
   /\ \E J \in DOMAIN dup_files : J < NthNewestFull(dup_files, 1))
  => /\ \A J \in DOMAIN dup_files :
          J < NthNewestFull(dup_files, 1)
            => Range(result) \cap Range(dup_files[J].files) = {}
     /\ \A J \in DOMAIN dup_files :
          J >= NthNewestFull(dup_files, 1)
            => Range(dup_files[J].files) \subseteq Range(result)

(* C3: a name of which only a proper prefix matches a pattern is rejected: *)
(* the scan does not get past it, it enters no generation and no mapping   *)
(* is returned.                                                            *)
C3_ConcatenatedNameRejected ==
  \A k \in 1..Len(all_files) :
    OnlyPrefixMatches(all_files[k])
      => /\ i <= k
         /\ ~MappingReturned
         /\ all_files[k] \notin FilesOf(dup_files, DOMAIN dup_files)

C5_ResultIsSubsetWithoutDuplicates ==
  pc = "done"
  => /\ Range(result) \subseteq Range(all_files)
     /\ \A a, b \in 1..Len(result) : a # b => result[a] # result[b]

(* A call that returned at least three names, two of one generation, and   *)
(* left a name of the listing out.                                         *)
C5_Witness ==
  /\ pc = "done"
  /\ Len(result) >= 3
  /\ \E k \in DOMAIN dup_files :
       Len(dup_files[k].files) >= 2 /\ Range(dup_files[k].files) \subseteq Range(result)
  /\ Range(result) # Range(all_files)

(* C6: a name that matches no pattern ends the scan with an error where it *)
(* stands: the scan never passes it, only names before it are in a         *)
(* generation, no mapping and no list is returned, and the step taken at   *)
(* it raises the unknown-file exception.                                   *)
C6_UnknownNameAbortsScan ==
  /\ [](\A k \in 1..Len(all_files) :
          MatchesNoPattern(all_files[k])
            => /\ i <= k
               /\ ~MappingReturned
               /\ result = <<>>
               /\ FilesOf(dup_files, DOMAIN dup_files)
                    \subseteq {all_files[j] : j \in 1..(k - 1)}
               /\ (pc = "raised" /\ i = k => exc = "Exception"))
  /\ [][(pc = "scan" /\ i <= Len(all_files) /\ MatchesNoPattern(all_files[i]))
          => (pc' = "raised" /\ exc' = "Exception" /\ i' = i
              /\ dup_files' = dup_files)]_vars

(* The scan was aborted at an unknown name that has classified names       *)
(* before it and names after it.                                           *)
C6_Witness ==
  /\ pc = "raised"
  /\ exc = "Exception"
  /\ MatchesNoPattern(all_files[i])
  /\ 1 < i
  /\ i < Len(all_files)

(* C7: a name with the shape of a pattern whose timestamp does not parse   *)
(* ends the scan with the same exception as a name that matches no         *)
(* pattern.                                                                *)
C7_BadTimestampFailsLikeUnknownName ==
  (pc = "raised" /\ ShapedWithBadTimestamp(all_files[i]))
  => exc = Classified[Readme].exc

(* C8: the files of a generation agree on is_full (and on the timestamp);  *)
(* a full-backup file and an incremental file with the same defining       *)
(* timestamp make add_entry fail at the second of them, and no mapping and *)
(* no list is returned.                                                    *)
C8_GenerationsAgreeOnIsFull ==
  /\ [](/\ \A key \in DOMAIN dup_files :
             \A f \in Range(dup_files[key].files) :
               /\ Classified[f].exc = ""
               /\ Classified[f].is_full = dup_files[key].is_full
               /\ Classified[f].timestamp = key
        /\ \A a, b \in 1..Len(all_files) :
             (/\ a < b
              /\ Classified[all_files[a]].exc = ""
              /\ Classified[all_files[b]].exc = ""
              /\ Classified[all_files[a]].timestamp = Classified[all_files[b]].timestamp
              /\ Classified[all_files[a]].is_full # Classified[all_files[b]].is_full)
             => /\ i <= b
                /\ ~MappingReturned
                /\ result = <<>>
                /\ (pc = "raised" /\ i = b => exc = "AssertionError"))
  /\ [][(/\ pc = "scan"
         /\ i <= Len(all_files)
         /\ Classified[all_files[i]].exc = ""
         /\ \E a \in 1..(i - 1) :
              /\ Classified[all_files[a]].timestamp = Classified[all_files[i]].timestamp
              /\ Classified[all_files[a]].is_full # Classified[all_files[i]].is_full)
          => (pc' = "raised" /\ exc' = "AssertionError" /\ i' = i)]_vars

(* add_entry failed at a full-backup file whose timestamp an incremental   *)
(* file earlier in the listing ends at.                                    *)
C8_Witness ==
  /\ pc = "raised"
  /\ exc = "AssertionError"
  /\ Classified[all_files[i]].is_full
  /\ \E a \in 1..(i - 1) :
       /\ ~Classified[all_files[a]].is_full
       /\ Classified[all_files[a]].timestamp = Classified[all_files[i]].timestamp

C10_MonotoneInN ==
  pc = "done" => Range(result) \subseteq Range(LastN(dup_files, nr_full + 1))

(* A call whose result grows when nr_full is raised by one. *)
C10_Witness ==
  /\ pc = "done"
  /\ result # <<>>
  /\ Range(result) # Range(LastN(dup_files, nr_full + 1))

============================================================================
